---- MODULE Spec2Model ----
(***************************************************************************)
(* Model of the expandenv crate (src/src/lib.rs, src/src/errors.rs).       *)
(*                                                                         *)
(* Strings are sequences of one-character strings.  The environment is a   *)
(* function from the settable variable names to a value or Unset; every    *)
(* other name is absent.  A harness sets variables, calls one of the three *)
(* functions of the crate on an input, and takes the result.               *)
(* Unix build: MAIN_SEPARATOR is "/" and the cfg(windows) lines are out.   *)
(***************************************************************************)
EXTENDS Integers, Sequences, FiniteSets, TLC

VARIABLES env, op, input, result

vars == <<env, op, input, result>>

----------------------------------------------------------------------------
(* Bounds and alphabet *)

MaxTokens == 3

U8Max == 255

Letters == {"A", "B", "M", "x", "p", "h"}

Digits == {"0", "1", "2", "3", "4", "5", "6", "7", "8", "9"}

Names == {<<"A">>, <<"B">>}

BadByte == "xFF"

Replacement == "uFFFD"

Values == { <<"p", "/", "$", "A">>, <<"~">>, <<BadByte>> }

Unset == <<"unset">>

MAIN_SEPARATOR == "/"

Home == <<"/", "h">>

----------------------------------------------------------------------------
(* Results *)

Ok(v) == [ok |-> TRUE, kind |-> "Ok", val |-> v]

EnvvarReadError(name) == [ok |-> FALSE, kind |-> "EnvvarReadError", val |-> name]

EmptyEnvvarCapture == [ok |-> FALSE, kind |-> "EmptyEnvvarCapture", val |-> <<>>]

NoResult == [ok |-> TRUE, kind |-> "None", val |-> <<>>]

----------------------------------------------------------------------------
(* Small helpers *)

Max(a, b) == IF a >= b THEN a ELSE b

Min(a, b) == IF a <= b THEN a ELSE b

RECURSIVE Concat(_)
Concat(ss) == IF ss = <<>> THEN <<>> ELSE Head(ss) \o Concat(Tail(ss))

Chars(s) == {s[i] : i \in 1..Len(s)}

\* std::env::var_os: the value of a set variable, Unset for any other name
var_os(e, name) == IF name \in DOMAIN e THEN e[name] ELSE Unset

\* OsStr::to_string_lossy: every undecodable byte becomes U+FFFD
to_string_lossy(v) == [i \in 1..Len(v) |-> IF v[i] = BadByte THEN Replacement ELSE v[i]]

\* [a-zA-Z_]
IsNameStart(c) == c \in Letters \cup {"_"}

\* \w
IsWord(c) == c \in Letters \cup Digits \cup {"_"}

\* index just after the longest run of \w characters that starts at j
RECURSIVE WordEnd(_, _)
WordEnd(s, j) == IF j <= Len(s) /\ IsWord(s[j]) THEN WordEnd(s, j + 1) ELSE j

----------------------------------------------------------------------------
(* The two regular expressions.  Positions are 1-based; a match covers     *)
(* s[first] .. s[last - 1], which is the Rust range first-1 .. last-1.     *)

NoMatch == [matched |-> FALSE, first |-> 0, last |-> 0, name |-> <<>>,
            hasFallback |-> FALSE, fallback |-> <<>>]

\* \$\{?([a-zA-Z_]\w*)(:-(.*?))?\}?  tried at position i (leftmost-first):
\* the lazy (.*?) is followed only by an optional brace, so it stays empty
MatchAt(s, i) ==
    LET n == Len(s)
        j == IF i + 1 <= n /\ s[i + 1] = "{" THEN i + 2 ELSE i + 1
    IN  IF i > n \/ s[i] # "$" \/ j > n THEN NoMatch
        ELSE IF ~IsNameStart(s[j]) THEN NoMatch
        ELSE LET k == WordEnd(s, j + 1)
                 hasFb == k + 1 <= n /\ s[k] = ":" /\ s[k + 1] = "-"
                 e1 == IF hasFb THEN k + 2 ELSE k
                 e == IF e1 <= n /\ s[e1] = "}" THEN e1 + 1 ELSE e1
             IN  [matched |-> TRUE, first |-> i, last |-> e,
                  name |-> SubSeq(s, j, k - 1),
                  hasFallback |-> hasFb, fallback |-> <<>>]

\* captures_iter: the next match at or after position from
RECURSIVE FindMatch(_, _)
FindMatch(s, from) ==
    IF from > Len(s) THEN NoMatch
    ELSE LET m == MatchAt(s, from)
         IN  IF m.matched THEN m ELSE FindMatch(s, from + 1)

\* ^\$\{?([a-zA-Z_]\w*)(:-(.*?))?\}?$  on a whole component: the lazy (.*?)
\* takes the shortest text that leaves an optional closing brace and the end
MatchWhole(c) ==
    LET n == Len(c)
        j == IF 2 <= n /\ c[2] = "{" THEN 3 ELSE 2
    IN  IF n = 0 \/ c[1] # "$" \/ j > n THEN NoMatch
        ELSE IF ~IsNameStart(c[j]) THEN NoMatch
        ELSE LET k == WordEnd(c, j + 1)
                 hasFb == k + 1 <= n /\ c[k] = ":" /\ c[k + 1] = "-"
                 fbEnd == IF n >= k + 2 /\ c[n] = "}" THEN n - 1 ELSE n
             IN  IF hasFb
                 THEN [matched |-> TRUE, first |-> 1, last |-> n + 1,
                       name |-> SubSeq(c, j, k - 1),
                       hasFallback |-> TRUE, fallback |-> SubSeq(c, k + 2, fbEnd)]
                 ELSE IF k = n + 1 \/ (k = n /\ c[n] = "}")
                 THEN [matched |-> TRUE, first |-> 1, last |-> n + 1,
                       name |-> SubSeq(c, j, k - 1),
                       hasFallback |-> FALSE, fallback |-> <<>>]
                 ELSE NoMatch

----------------------------------------------------------------------------
(* expand (string mode) *)

\* String::replace_range(start..end, with), 0-based half-open range
replace_range(str, start, end, with) ==
    SubSeq(str, 1, start) \o with \o SubSeq(str, end + 1, Len(str))

\* ExpandArm with the error arm lost: an absent variable without fallback
\* is resolved like one with an empty fallback
ExpandArmNoError(value, hasFallback) ==
    IF value # Unset THEN "value" ELSE "fallback"

\* which arm of the if / else-if / else on the variable is taken
ExpandArm(value, hasFallback) ==
    IF value # Unset THEN "value"
    ELSE IF hasFallback THEN "fallback"
    ELSE "error"

RECURSIVE expand(_, _)
RECURSIVE ExpandLoop(_, _, _, _, _)

\* one iteration of the loop over the captures, then the rest of the loop
ExpandLoop(s, e, from, expanded, total_offset) ==
    LET m == FindMatch(s, from)
    IN  IF ~m.matched THEN Ok(expanded)
        ELSE IF m.name = <<>> THEN EmptyEnvvarCapture
        ELSE LET value == var_os(e, m.name)
                 arm == ExpandArm(value, m.hasFallback)
                 envvar_value ==
                     IF arm = "value" THEN Ok(to_string_lossy(value))
                     ELSE IF arm = "fallback" THEN expand(m.fallback, e)
                     ELSE EnvvarReadError(m.name)
             IN  IF ~envvar_value.ok THEN envvar_value
                 ELSE LET start == Max(0, (m.first - 1) + total_offset)
                          end == Max(0, (m.last - 1) + total_offset)
                          new == replace_range(expanded, start, end, envvar_value.val)
                      IN  ExpandLoop(s, e, m.last, new,
                                     total_offset + (Len(new) - Len(expanded)))

expand(s, e) == ExpandLoop(s, e, 1, s, 0)

----------------------------------------------------------------------------
(* __parse_path_components_with_braces *)

\* BraceStep with the comp_is_envvar guards lost: every brace counts
BraceStepAnyBrace(c, brace_depth, comp_is_envvar) ==
    IF c = "{" THEN Min(brace_depth + 1, U8Max)
    ELSE IF c = "}" THEN Max(brace_depth - 1, 0)
    ELSE brace_depth

\* the '{' and '}' arms of the match: brace_depth after character c
BraceStep(c, brace_depth, comp_is_envvar) ==
    IF c = "{" /\ comp_is_envvar THEN Min(brace_depth + 1, U8Max)
    ELSE IF c = "}" /\ comp_is_envvar THEN Max(brace_depth - 1, 0)
    ELSE brace_depth

\* the for loop over the characters, from position i on
RECURSIVE ParseLoop(_, _, _, _, _, _)
ParseLoop(s, i, brace_depth, comp, comp_is_envvar, components) ==
    IF i > Len(s) THEN Append(components, comp)
    ELSE IF s[i] = MAIN_SEPARATOR /\ brace_depth = 0
         THEN ParseLoop(s, i + 1, brace_depth, <<>>, FALSE, Append(components, comp))
         ELSE ParseLoop(s, i + 1, BraceStep(s[i], brace_depth, comp_is_envvar),
                        Append(comp, s[i]), comp_is_envvar \/ s[i] = "$", components)

parse_path_components_with_braces(s) ==
    IF s # <<>> /\ s[1] = MAIN_SEPARATOR
    THEN ParseLoop(s, 2, 0, <<>>, FALSE, << <<MAIN_SEPARATOR>> >>)
    ELSE ParseLoop(s, 1, 0, <<>>, FALSE, <<>>)

----------------------------------------------------------------------------
(* std::path as expand_by_path_components uses it *)

\* the pieces of p between separators, empty pieces included
RECURSIVE SplitLoop(_, _, _, _)
SplitLoop(p, i, piece, pieces) ==
    IF i > Len(p) THEN Append(pieces, piece)
    ELSE IF p[i] = MAIN_SEPARATOR
         THEN SplitLoop(p, i + 1, <<>>, Append(pieces, piece))
         ELSE SplitLoop(p, i + 1, Append(piece, p[i]), pieces)

\* Path::components on Unix: a root component for a leading separator, no
\* empty component, and no "." component except as the very first one
RECURSIVE NormalLoop(_, _, _)
NormalLoop(pieces, i, hasRoot) ==
    IF i > Len(pieces) THEN <<>>
    ELSE LET c == pieces[i]
             keep == c # <<>> /\ (c # <<".">> \/ (i = 1 /\ ~hasRoot))
         IN  (IF keep THEN <<c>> ELSE <<>>) \o NormalLoop(pieces, i + 1, hasRoot)

Components(p) ==
    LET hasRoot == p # <<>> /\ p[1] = MAIN_SEPARATOR
    IN  (IF hasRoot THEN << <<MAIN_SEPARATOR>> >> ELSE <<>>)
        \o NormalLoop(SplitLoop(p, 1, <<>>, <<>>), 1, hasRoot)

\* [OsString]::join(separator)
RECURSIVE Join(_)
Join(comps) ==
    IF comps = <<>> THEN <<>>
    ELSE IF Len(comps) = 1 THEN comps[1]
    ELSE comps[1] \o <<MAIN_SEPARATOR>> \o Join(Tail(comps))

----------------------------------------------------------------------------
(* expand_by_path_components (path mode) *)

\* which arm of the if / else-if / else on the variable is taken
PathArm(value, hasFallback) ==
    IF value # Unset THEN "value"
    ELSE IF hasFallback THEN "fallback"
    ELSE "error"

\* the leading "~" of the flattened components becomes the home directory
TildeFront(expanded_comps) ==
    IF expanded_comps # <<>> /\ expanded_comps[1] = <<"~">>
    THEN Components(Home) \o Tail(expanded_comps)
    ELSE expanded_comps

RECURSIVE expand_by_path_components(_, _)
RECURSIVE PathLoop(_, _, _, _)

\* the loop over comp_strs from index i on; yields the flattened components
PathLoop(comp_strs, e, i, expanded_comps) ==
    IF i > Len(comp_strs) THEN Ok(expanded_comps)
    ELSE LET comp == comp_strs[i]
             m == MatchWhole(to_string_lossy(comp))
         IN  IF ~m.matched
             THEN PathLoop(comp_strs, e, i + 1, expanded_comps \o Components(comp))
             ELSE IF m.name = <<>> THEN EmptyEnvvarCapture
             ELSE LET value == var_os(e, m.name)
                      arm == PathArm(value, m.hasFallback)
                      envvar_value ==
                          IF arm = "value" THEN Ok(value)
                          ELSE IF arm = "fallback"
                               THEN expand_by_path_components(m.fallback, e)
                          ELSE EnvvarReadError(m.name)
                  IN  IF ~envvar_value.ok THEN envvar_value
                      ELSE PathLoop(comp_strs, e, i + 1,
                                    expanded_comps \o Components(envvar_value.val))

expand_by_path_components(s, e) ==
    LET flat == PathLoop(parse_path_components_with_braces(s), e, 1, <<>>)
    IN  IF ~flat.ok THEN flat ELSE Ok(Join(TildeFront(flat.val)))

----------------------------------------------------------------------------
(* Inputs of the calls *)

StringTokens ==
    { <<"$", "A">>, <<"$", "{", "A">>, <<"$", "{", "A", ":", "-">>, <<"$", "B">>,
      <<"}">>, <<"{">>, <<"x">>, <<".">>, <<"\\">>, <<"$">> }

PathTokens ==
    { <<"$", "A">>, <<"$", "{", "A", ":", "-">>, <<"$", "B">>,
      <<"}">>, <<"{">>, <<"/">>, <<"~">>, <<"x">>, <<".">>, <<"$">> }

TokenStrings(tokens) ==
    UNION { { Concat(ts) : ts \in [1..n -> tokens] } : n \in 0..MaxTokens }

\* the shapes of the inputs of the crate's tests and documentation
StringExamples ==
    { <<"x", ".", "$", "{", "A", "}", ".", "$", "{", "B", "}">>,
      <<"x", ".", "$", "{", "M", ":", "-", "$", "A", "}">>,
      <<"$", "{", "M", ":", "-", "$", "{", "M", ":", "-", "$", "{", "A", ":", "-", "x", "}", "}", "}">> }

PathExamples ==
    { <<"~", "/", "x", "/", "x">>,
      <<"x", "/", "x", "/", "$", "A", "/", "x">>,
      <<"$", "{", "M", ":", "-", "~", "}", "/", "x">>,
      <<"$", "{", "M", ":", "-", "~", "/", "x", "}", "/", "x">>,
      <<"x", "/", "$", "{", "M", ":", "-", "~", "}", "/", "x">>,
      <<"$", "{", "M", ":", "-", "$", "{", "M", ":", "-", "$", "{", "M", ":", "-", "$", "A", "}", "}", "}", "/", "x">>,
      <<"$", "{", "M", ":", "-", "$", "{", "B", ":", "-", "x", "/", "x", "}", "}", "/", "x">>,
      <<"$", "{", "x", "/", "x", "}", "/", "x">>,
      <<"{", "x", "/", "x", "}", "/", "x">> }

StringInputs == TokenStrings(StringTokens) \cup StringExamples

PathInputs == TokenStrings(PathTokens) \cup PathExamples

----------------------------------------------------------------------------
(* The harness: set up the environment, call, take the result *)

Init ==
    /\ env = [n \in Names |-> Unset]
    /\ op = "idle"
    /\ input = <<>>
    /\ result = NoResult

\* std::env::set_var
SetVar(n, v) ==
    /\ op = "idle"
    /\ env[n] # v
    /\ env' = [env EXCEPT ![n] = v]
    /\ UNCHANGED <<op, input, result>>

\* expand(&input) for some input
CallExpand ==
    /\ op = "idle"
    /\ \E s \in StringInputs :
           /\ op' = "expand"
           /\ input' = s
           /\ result' = expand(s, env)
    /\ UNCHANGED env

\* expand_by_path_components(input) for some input
CallExpandByPathComponents ==
    /\ op = "idle"
    /\ \E s \in PathInputs :
           /\ op' = "path"
           /\ input' = s
           /\ result' = expand_by_path_components(s, env)
    /\ UNCHANGED env

\* __parse_path_components_with_braces(input) for some input
CallParse ==
    /\ op = "idle"
    /\ \E s \in PathInputs :
           /\ op' = "parse"
           /\ input' = s
           /\ result' = [ok |-> TRUE, kind |-> "Components",
                         val |-> parse_path_components_with_braces(s)]
    /\ UNCHANGED env

\* the caller takes the result; the next call starts from a clean slate
Return ==
    /\ op # "idle"
    /\ op' = "idle"
    /\ input' = <<>>
    /\ result' = NoResult
    /\ UNCHANGED env

Next ==
    \/ \E n \in Names, v \in Values : SetVar(n, v)
    \/ CallExpand
    \/ CallExpandByPathComponents
    \/ CallParse
    \/ Return

Spec == Init /\ [][Next]_vars

TypeOK ==
    /\ op \in {"idle", "expand", "path", "parse"}
    /\ \A n \in Names : env[n] \in Values \cup {Unset}

----------------------------------------------------------------------------
(* Vocabulary of the claims *)

IsSet(e, name) == var_os(e, name) # Unset

Decodable(v) == BadByte \notin Chars(v)

IsName(w) == w # <<>> /\ IsNameStart(w[1]) /\ \A i \in 1..Len(w) : IsWord(w[i])

Outside == [ok |-> FALSE, val |-> <<>>]

Inside(v) == [ok |-> TRUE, val |-> v]

----------------------------------------------------------------------------
(* C1 *)

\* the input read from position i with every $NAME and ${NAME} replaced by
\* the value of NAME; Outside when some "$" starts anything else, or the
\* variable is not set to decodable text
RECURSIVE Substituted(_, _, _)
Substituted(s, i, e) ==
    IF i > Len(s) THEN Inside(<<>>)
    ELSE IF s[i] # "$"
         THEN LET r == Substituted(s, i + 1, e)
              IN  IF r.ok THEN Inside(<<s[i]>> \o r.val) ELSE Outside
    ELSE LET n == Len(s)
             braced == i + 1 <= n /\ s[i + 1] = "{"
             j == IF braced THEN i + 2 ELSE i + 1
             k == WordEnd(s, j)
             name == SubSeq(s, j, k - 1)
             closed == k <= n /\ s[k] = "}"
             next == IF braced THEN k + 1 ELSE k
         IN  IF ~IsName(name) \/ (braced /\ ~closed) THEN Outside
             ELSE IF ~IsSet(e, name) THEN Outside
             ELSE IF ~Decodable(var_os(e, name)) THEN Outside
             ELSE LET r == Substituted(s, next, e)
                  IN  IF r.ok THEN Inside(var_os(e, name) \o r.val) ELSE Outside

\* C1: expand of an input whose placeholders are all $NAME or ${NAME} of set
\* variables is Ok and is the input with each placeholder replaced by the
\* value of its variable, the text between the placeholders unchanged
C1_ExpandReplacesPlaceholders ==
    op = "expand" =>
        LET r == Substituted(input, 1, env)
        IN  r.ok => result = Ok(r.val)

----------------------------------------------------------------------------
(* C2 *)

TildeFree(s, e) ==
    /\ "~" \notin Chars(s)
    /\ \A n \in DOMAIN e : "~" \notin Chars(e[n])

\* a component that is entirely $NAME, ${NAME} or ${NAME:-FALLBACK}
Placeholder(c) ==
    LET n == Len(c)
        braced == 2 <= n /\ c[2] = "{"
        j == IF braced THEN 3 ELSE 2
        k == WordEnd(c, j)
        name == SubSeq(c, j, k - 1)
    IN  IF n < 2 \/ c[1] # "$" \/ ~IsName(name)
        THEN [is |-> FALSE, name |-> <<>>, hasFallback |-> FALSE, fallback |-> <<>>]
        ELSE IF ~braced
        THEN [is |-> k = n + 1, name |-> name, hasFallback |-> FALSE, fallback |-> <<>>]
        ELSE IF k = n /\ c[n] = "}"
        THEN [is |-> TRUE, name |-> name, hasFallback |-> FALSE, fallback |-> <<>>]
        ELSE IF k + 2 <= n /\ c[k] = ":" /\ c[k + 1] = "-" /\ c[n] = "}"
        THEN [is |-> TRUE, name |-> name, hasFallback |-> TRUE,
              fallback |-> SubSeq(c, k + 2, n - 1)]
        ELSE [is |-> FALSE, name |-> <<>>, hasFallback |-> FALSE, fallback |-> <<>>]

\* the components the claim gives for the components comps[i..]: those of
\* the value or of the expanded fallback for a placeholder, the component's
\* own otherwise; Outside when a variable without fallback is not set
RECURSIVE ClaimedPath(_, _)
RECURSIVE ClaimedComps(_, _, _)
ClaimedComps(comps, i, e) ==
    IF i > Len(comps) THEN Inside(<<>>)
    ELSE LET ph == Placeholder(comps[i])
             here == IF ~ph.is THEN Inside(Components(comps[i]))
                     ELSE IF IsSet(e, ph.name) THEN Inside(Components(var_os(e, ph.name)))
                     ELSE IF ph.hasFallback
                          THEN LET f == ClaimedPath(ph.fallback, e)
                               IN  IF f.ok THEN Inside(Components(f.val)) ELSE Outside
                     ELSE Outside
             rest == ClaimedComps(comps, i + 1, e)
         IN  IF here.ok /\ rest.ok THEN Inside(here.val \o rest.val) ELSE Outside

ClaimedPath(s, e) ==
    LET r == ClaimedComps(parse_path_components_with_braces(s), 1, e)
    IN  IF r.ok THEN Inside(Join(r.val)) ELSE Outside

\* every opening brace of s has a closing brace after it
BracesClosed(s) ==
    \A i \in 1..Len(s) : s[i] = "{" => \E j \in (i + 1)..Len(s) : s[j] = "}"

\* every name that follows a "$" or "${" in s is a variable set to valid text
NamedAreSet(s, e) ==
    \A i \in 1..Len(s) :
        s[i] = "$" =>
            LET j == IF i + 1 <= Len(s) /\ s[i + 1] = "{" THEN i + 2 ELSE i + 1
                name == SubSeq(s, j, WordEnd(s, j) - 1)
            IN  name # <<>> => (IsSet(e, name) /\ Decodable(var_os(e, name)))

\* C2: expand_by_path_components replaces each component that is entirely
\* one placeholder by the components of the value or of the expanded
\* fallback, passes every other component through, and joins the components
\* with the separator (inputs and values without "~", every brace closed,
\* every named variable set)
C2_PathComponentsReplaced ==
    (/\ op = "path"
     /\ TildeFree(input, env)
     /\ BracesClosed(input)
     /\ NamedAreSet(input, env)) =>
        LET r == ClaimedPath(input, env)
        IN  r.ok => result = Ok(r.val)

----------------------------------------------------------------------------
(* C3 *)

NoName == <<"none">>

\* the name of the variable that p leaves unresolved: p is $N or ${N} with N
\* absent, or ${M:-Q} with M absent and Q such a placeholder again; NoName
\* for any other text
RECURSIVE MissingName(_, _)
MissingName(p, e) ==
    LET n == Len(p)
        braced == 2 <= n /\ p[2] = "{"
        j == IF braced THEN 3 ELSE 2
        k == WordEnd(p, j)
        name == SubSeq(p, j, k - 1)
    IN  IF n < 2 \/ p[1] # "$" \/ ~IsName(name) THEN NoName
        ELSE IF IsSet(e, name) THEN NoName
        ELSE IF ~braced THEN (IF k = n + 1 THEN name ELSE NoName)
        ELSE IF k = n /\ p[n] = "}" THEN name
        ELSE IF k + 2 <= n /\ p[k] = ":" /\ p[k + 1] = "-" /\ p[n] = "}"
             THEN MissingName(SubSeq(p, k + 2, n - 1), e)
        ELSE NoName

\* in string mode the placeholder input[a..b] is reached: the text before it
\* expands without error, and a bare $N is not continued by the next character
ReachedInString(a, b) ==
    /\ MissingName(SubSeq(input, a, b), env) # NoName
    /\ b < Len(input) => /\ ~IsWord(input[b + 1])
                         /\ input[b] = "}" \/ input[b + 1] # ":"
    /\ expand(SubSeq(input, 1, a - 1), env).ok

\* in path mode the placeholder input[a..b] is a whole component and is
\* reached: the components before it expand without error
ReachedInPath(a, b) ==
    /\ MissingName(SubSeq(input, a, b), env) # NoName
    /\ a > 1 => LET before == parse_path_components_with_braces(SubSeq(input, 1, a - 1))
                IN  before[Len(before)] = <<>>
    /\ b < Len(input) => input[b + 1] = MAIN_SEPARATOR
    /\ expand_by_path_components(SubSeq(input, 1, a - 1), env).ok

----------------------------------------------------------------------------
(* C4 *)

Literal(t) == Chars(t) \cap {"$", "{", "}"} = {}

\* what ${NAME:-FALLBACK} resolves to: the value of NAME when NAME is set,
\* else the fallback: itself when it is literal text, resolved in the same
\* way when it is such a placeholder again; Outside for any other text
RECURSIVE Resolved(_, _)
Resolved(p, e) ==
    LET ph == Placeholder(p)
    IN  IF ~ph.is \/ ~ph.hasFallback THEN Outside
        ELSE IF IsSet(e, ph.name)
             THEN (IF Decodable(var_os(e, ph.name))
                   THEN Inside(var_os(e, ph.name)) ELSE Outside)
        ELSE IF Literal(ph.fallback) THEN Inside(ph.fallback)
        ELSE Resolved(ph.fallback, e)

\* C4: expand of ${NAME:-FALLBACK} is the value of NAME alone when NAME is
\* set and the expansion of FALLBACK when it is not, with nothing left over
C4_FallbackPrecedence ==
    op = "expand" =>
        LET r == Resolved(input, env)
        IN  r.ok => result = Ok(r.val)

----------------------------------------------------------------------------
(* C5 *)

\* C5: expand of a backslash, "$" and a name is the literal "$" and name,
\* whether the variable is set or not
C5_EscapedDollarIsLiteral ==
    (/\ op = "expand"
     /\ Len(input) >= 3
     /\ input[1] = "\\"
     /\ input[2] = "$"
     /\ IsName(SubSeq(input, 3, Len(input))))
        => result = Ok(Tail(input))

----------------------------------------------------------------------------
(* C6 *)

\* the fully resolved and flattened components of s, no "~" replaced
RECURSIVE Flattened(_, _)
RECURSIVE FlattenedFrom(_, _, _)
FlattenedFrom(comps, i, e) ==
    IF i > Len(comps) THEN Inside(<<>>)
    ELSE LET m == MatchWhole(to_string_lossy(comps[i]))
             here == IF ~m.matched THEN Inside(Components(comps[i]))
                     ELSE IF IsSet(e, m.name) THEN Inside(Components(var_os(e, m.name)))
                     ELSE IF m.hasFallback THEN Flattened(m.fallback, e)
                     ELSE Outside
             rest == FlattenedFrom(comps, i + 1, e)
         IN  IF here.ok /\ rest.ok THEN Inside(here.val \o rest.val) ELSE Outside

Flattened(s, e) == FlattenedFrom(parse_path_components_with_braces(s), 1, e)

BracesBalanced(s) ==
    Cardinality({i \in 1..Len(s) : s[i] = "{"}) = Cardinality({i \in 1..Len(s) : s[i] = "}"})

\* C6: "~" becomes the components of the home directory exactly when it is
\* the first of the flattened components of the whole input; a "~" in any
\* later position, a fallback's included, stays the literal "~" (inputs
\* with as many closing as opening braces)
C6_TildeOnlyFirst ==
    (op = "path" /\ BracesBalanced(input)) =>
        LET f == Flattened(input, env)
        IN  f.ok => result = Ok(Join(IF f.val # <<>> /\ f.val[1] = <<"~">>
                                     THEN Components(Home) \o Tail(f.val)
                                     ELSE f.val))

----------------------------------------------------------------------------
(* C7 *)

\* the only "$" of s is at position i and no name can be taken after it
NamelessDollar(s, i) ==
    /\ s[i] = "$"
    /\ \A j \in 1..Len(s) : s[j] = "$" => j = i
    /\ \/ i = Len(s)
       \/ i < Len(s) /\ s[i + 1] # "{" /\ ~IsNameStart(s[i + 1])
       \/ i + 1 < Len(s) /\ s[i + 1] = "{" /\ s[i + 2] = "}"

\* C7: a "$" from which no name can be extracted makes the call fail with
\* EmptyEnvvarCapture
C7_NamelessDollarRejected ==
    (op \in {"expand", "path"} /\ \E i \in 1..Len(input) : NamelessDollar(input, i))
        => result = EmptyEnvvarCapture

----------------------------------------------------------------------------
(* C8 *)

\* C8: a placeholder whose variable is set to a value that is not valid text
\* makes the call fail with OsVarError
C8_UndecodableValueRejected ==
    (/\ op \in {"expand", "path"}
     /\ Placeholder(input).is
     /\ IsSet(env, Placeholder(input).name)
     /\ ~Decodable(var_os(env, Placeholder(input).name)))
        => (~result.ok /\ result.kind = "OsVarError")

----------------------------------------------------------------------------
(* C9 *)

\* input is literal text, then $NAME at position a with NAME set, then
\* literal text that starts with a character that cannot continue the name
\* (a closing brace or a colon right after the name, the subject of C1 and
\* C4, left aside)
BareInText(a) ==
    LET k == WordEnd(input, a + 1)
        name == SubSeq(input, a + 1, k - 1)
        around == SubSeq(input, 1, a - 1) \o SubSeq(input, k, Len(input))
    IN  /\ input[a] = "$"
        /\ IsName(name)
        /\ IsSet(env, name)
        /\ Decodable(var_os(env, name))
        /\ "$" \notin Chars(around)
        /\ around # <<>>
        /\ k <= Len(input) => input[k] \notin {"}", ":"}
        /\ op = "path" => /\ TildeFree(input, env)
                          /\ MAIN_SEPARATOR \notin Chars(around)

BareExpanded(a) ==
    LET k == WordEnd(input, a + 1)
        text == SubSeq(input, 1, a - 1) \o var_os(env, SubSeq(input, a + 1, k - 1))
                    \o SubSeq(input, k, Len(input))
    IN  IF op = "path" THEN Join(Components(text)) ELSE text

\* C9: a bare $NAME ends at the first character that is not alphanumeric
\* and not an underscore, which is kept; with literal text after it or
\* before it in the same component, the value takes the place of $NAME
C9_BareNameEndsAtNonWord ==
    \A a \in 1..Len(input) :
        (op \in {"expand", "path"} /\ BareInText(a)) => result = Ok(BareExpanded(a))

----------------------------------------------------------------------------
(* C10 *)

\* brace depth and "a $ was seen in this component" after the first i
\* characters of s; the depth stays within 0 .. 255
RECURSIVE ScanState(_, _)
ScanState(s, i) ==
    IF i = 0 THEN [depth |-> 0, dollar |-> FALSE]
    ELSE LET before == ScanState(s, i - 1)
         IN  IF s[i] = MAIN_SEPARATOR /\ before.depth = 0
                 THEN [depth |-> 0, dollar |-> FALSE]
             ELSE IF s[i] = "$" THEN [depth |-> before.depth, dollar |-> TRUE]
             ELSE IF s[i] = "{" /\ before.dollar
                 THEN [depth |-> Min(before.depth + 1, U8Max), dollar |-> TRUE]
             ELSE IF s[i] = "}" /\ before.dollar
                 THEN [depth |-> Max(before.depth - 1, 0), dollar |-> TRUE]
             ELSE before

\* s[i] is a separator at brace depth 0
SplitsAt(s, i) == s[i] = MAIN_SEPARATOR /\ ScanState(s, i - 1).depth = 0

\* the pieces of s[from..] between the separators at brace depth 0
RECURSIVE PiecesFrom(_, _, _)
PiecesFrom(s, from, i) ==
    IF i > Len(s) THEN << SubSeq(s, from, Len(s)) >>
    ELSE IF SplitsAt(s, i)
         THEN << SubSeq(s, from, i - 1) >> \o PiecesFrom(s, i + 1, i + 1)
         ELSE PiecesFrom(s, from, i + 1)

SplitAtDepthZero(s) == PiecesFrom(s, 1, 1)

\* C10 as stated: the components are the input split at exactly the
\* separators at brace depth 0
C10_Original ==
    op = "parse" => result.val = SplitAtDepthZero(input)

\* C10: the components are the input split at exactly the separators at
\* brace depth 0, where only "{" and "}" after a "$" in the current component
\* change the depth (kept within 0 .. 255); a leading separator is not a
\* split point but is itself the first component
C10_SplitAtDepthZero ==
    op = "parse" =>
        result.val = IF input # <<>> /\ input[1] = MAIN_SEPARATOR
                     THEN << <<MAIN_SEPARATOR>> >> \o SplitAtDepthZero(Tail(input))
                     ELSE SplitAtDepthZero(input)

\* a separator inside ${...} did not split, one after it did
C10_Witness ==
    /\ op = "parse"
    /\ \E i \in 1..Len(input) : \E j \in 1..Len(input) :
           /\ i < j
           /\ input[i] = MAIN_SEPARATOR /\ ~SplitsAt(input, i)
           /\ SplitsAt(input, j)
    /\ Len(result.val) = 2

====
